---- MODULE Spec2Model ----
(***************************************************************************)
(* Resume matching and scoring pipeline of RecurAI: the relational store   *)
(* (resumes, analysis_sessions, resume_analyses), the availability         *)
(* functions of the migration script, the per-resume scoring task and the  *)
(* session state machine that aggregates the tasks.                        *)
(***************************************************************************)
EXTENDS Integers, FiniteSets, Sequences, TLC

\* ------------------------------------------------------------------ bounds
MaxResume == 2
MaxSession == 2
MaxJob == 2
MaxUser == 2

MaxChunks == 6
MaxOwnChunks == 2
MaxDistance == 3

Resumes == 1..MaxResume
SessionIds == 1..MaxSession
Jobs == 1..MaxJob
Users == 1..MaxUser

\* job_posting_id is a nullable column: NULL is the general context.
NULL == 0
Contexts == {NULL} \cup Jobs

\* Storage keys an uploader can assign (s3_resume_key is NOT NULL).
MaxKey == 2
S3Keys == 1..MaxKey

Statuses == {"pending", "processing", "completed", "failed"}

\* ------------------------------------------------------------------ state
VARIABLES
    resumes,            \* table resumes: id -> [user_id, s3_resume_key]
    analysis_sessions,  \* table analysis_sessions: id -> row
    resume_analyses,    \* table resume_analyses: set of rows
    deleted,            \* session ids already used by a deleted session
    tasks,              \* per-resume tasks dispatched by the orchestrator
    lastError,          \* what the last direct call of record raised
    ret,                \* the last direct call of a function: argument and result
    ui                  \* state of the front-end component on screen

vars == <<resumes, analysis_sessions, resume_analyses, deleted, tasks, lastError, ret, ui>>

\* No front-end component is mounted.
NoUi == [component |-> "none"]

\* -------------------------------------------------------- scoring results
ScoreFields == {"Overall Fit", "Skill Match", "Project Relevance", "Problem Solving", "Tools"}
RequiredFields == ScoreFields \cup {"Summary"}

DefaultScore == 70
FallbackSummary == "AI analysis temporarily unavailable due to rate limits. Please try again later or contact support to increase your API quota."

_get_fallback_analysis ==
    [f \in RequiredFields |-> IF f = "Summary" THEN FallbackSummary ELSE DefaultScore]

\* A reply of the chain: it raises (network, timeout, rate limit, bad JSON)
\* or parses to a JSON object holding some of the fields.
Raise == [kind |-> "raise"]
Exception == [kind |-> "exception"]
Json(obj) == [kind |-> "json", obj |-> obj]

\* The call sits in a try block of its caller, so its value says whether it
\* raised; as written it catches every exception and never does.
Returned(result) == [raised |-> FALSE, result |-> result]
Raised == [raised |-> TRUE, result |-> [f \in {} |-> f]]

analyze_resume_with_ai_propagates(response) ==
    IF response.kind = "raise"
    THEN Raised
    ELSE Returned([f \in RequiredFields |->
            IF f \in DOMAIN response.obj THEN response.obj[f]
            ELSE IF f # "Summary" THEN DefaultScore ELSE "Analysis completed"])

\* A validation that gives up on the whole reply when a field is missing.
analyze_resume_with_ai_AllOrNothing(response) ==
    IF response.kind = "raise" \/ ~(RequiredFields \subseteq DOMAIN response.obj)
    THEN Returned(_get_fallback_analysis)
    ELSE Returned(response.obj)

analyze_resume_with_ai(response) ==
    IF response.kind = "raise"
    THEN Returned(_get_fallback_analysis)
    ELSE Returned([f \in RequiredFields |->
            IF f \in DOMAIN response.obj THEN response.obj[f]
            ELSE IF f # "Summary" THEN DefaultScore ELSE "Analysis completed"])

GoodResponse ==
    Json([f \in RequiredFields |-> IF f = "Summary" THEN "Strong candidate" ELSE 85])

\* The replies the language model gives in the pipeline runs.
PipelineResponses == {Raise, GoodResponse}

\* ------------------------------------------------------------ store layer
AnalysisRow(resume_id, session_id, result) ==
    [resume_id |-> resume_id,
     analysis_session_id |-> session_id,
     overall_fit_score |-> result["Overall Fit"],
     skill_match_score |-> result["Skill Match"],
     project_relevance_score |-> result["Project Relevance"],
     problem_solving_score |-> result["Problem Solving"],
     tools_score |-> result["Tools"],
     summary |-> result["Summary"]]

RowsOf(rows, session_id) == {ra \in rows : ra.analysis_session_id = session_id}

\* The table as the base schema declares it, without the UNIQUE constraint.
RecordError_NoUnique(rows, sessions, resume_id, session_id) ==
    IF resume_id \notin DOMAIN resumes \/ session_id \notin DOMAIN sessions
    THEN "ForeignKeyViolation"
    ELSE "none"

\* INSERT INTO resume_analyses: the foreign keys and UNIQUE(resume_id,
\* analysis_session_id) reject the row and leave the table as it was.
RecordError(rows, sessions, resume_id, session_id) ==
    IF resume_id \notin DOMAIN resumes \/ session_id \notin DOMAIN sessions
    THEN "ForeignKeyViolation"
    ELSE IF \E ra \in rows : ra.resume_id = resume_id /\ ra.analysis_session_id = session_id
    THEN "DuplicateAnalysis"
    ELSE "none"

record(rows, sessions, resume_id, session_id, result) ==
    LET err == RecordError(rows, sessions, resume_id, session_id) IN
    [error |-> err,
     rows |-> IF err = "none"
              THEN rows \cup {AnalysisRow(resume_id, session_id, result)}
              ELSE rows]

\* The function without its a.status = 'completed' condition.
is_resume_available_AnyStatus(p_resume_id, p_job_posting_id) ==
    IF p_job_posting_id = NULL
    THEN ~ \E ra \in resume_analyses :
            /\ ra.analysis_session_id \in DOMAIN analysis_sessions
            /\ ra.resume_id = p_resume_id
            /\ analysis_sessions[ra.analysis_session_id].job_posting_id = NULL
    ELSE ~ \E ra \in resume_analyses :
            /\ ra.analysis_session_id \in DOMAIN analysis_sessions
            /\ ra.resume_id = p_resume_id
            /\ analysis_sessions[ra.analysis_session_id].job_posting_id # NULL
            /\ analysis_sessions[ra.analysis_session_id].job_posting_id = p_job_posting_id

\* The function with the job comparison of its second branch left out.
is_resume_available_AnyJob(p_resume_id, p_job_posting_id) ==
    IF p_job_posting_id = NULL
    THEN ~ \E ra \in resume_analyses :
            /\ ra.analysis_session_id \in DOMAIN analysis_sessions
            /\ ra.resume_id = p_resume_id
            /\ analysis_sessions[ra.analysis_session_id].job_posting_id = NULL
            /\ analysis_sessions[ra.analysis_session_id].status = "completed"
    ELSE ~ \E ra \in resume_analyses :
            /\ ra.analysis_session_id \in DOMAIN analysis_sessions
            /\ ra.resume_id = p_resume_id
            /\ analysis_sessions[ra.analysis_session_id].job_posting_id # NULL
            /\ analysis_sessions[ra.analysis_session_id].status = "completed"

is_resume_available_for_analysis(p_resume_id, p_job_posting_id) ==
    IF p_job_posting_id = NULL
    THEN ~ \E ra \in resume_analyses :
            /\ ra.analysis_session_id \in DOMAIN analysis_sessions
            /\ ra.resume_id = p_resume_id
            /\ analysis_sessions[ra.analysis_session_id].job_posting_id = NULL
            /\ analysis_sessions[ra.analysis_session_id].status = "completed"
    ELSE ~ \E ra \in resume_analyses :
            /\ ra.analysis_session_id \in DOMAIN analysis_sessions
            /\ ra.resume_id = p_resume_id
            /\ analysis_sessions[ra.analysis_session_id].job_posting_id # NULL
            /\ analysis_sessions[ra.analysis_session_id].job_posting_id = p_job_posting_id
            /\ analysis_sessions[ra.analysis_session_id].status = "completed"

\* The pre-fix listing, which read availability off the storage path.
get_available_resumes_ByKey(p_user_id, p_job_posting_id) ==
    {r \in DOMAIN resumes :
        /\ resumes[r].user_id = p_user_id
        /\ resumes[r].s3_resume_key = 1
        /\ is_resume_available_for_analysis(r, p_job_posting_id)}

get_available_resumes(p_user_id, p_job_posting_id) ==
    {r \in DOMAIN resumes :
        /\ resumes[r].user_id = p_user_id
        /\ resumes[r].s3_resume_key # NULL
        /\ is_resume_available_for_analysis(r, p_job_posting_id)}

\* ------------------------------------------------------- table operations
Put(table, id, row) == [x \in DOMAIN table \cup {id} |-> IF x = id THEN row ELSE table[x]]
Drop(table, id) == [x \in DOMAIN table \ {id} |-> table[x]]

\* gen_random_uuid() never hands out an id twice.
FreshSessionId(s) ==
    /\ s \in SessionIds \ (DOMAIN analysis_sessions \cup deleted)
    /\ \A x \in SessionIds : x < s => x \in DOMAIN analysis_sessions \cup deleted

\* An INSERT that leaves total_resumes to the column default.
NewSession_DefaultTotal(job_posting_id, resume_ids) ==
    [job_posting_id |-> job_posting_id,
     status |-> "pending",
     total_resumes |-> 0,
     processed_resumes |-> 0,
     resume_ids |-> resume_ids]

NewSession(job_posting_id, resume_ids) ==
    [job_posting_id |-> job_posting_id,
     status |-> "pending",
     total_resumes |-> Cardinality(resume_ids),
     processed_resumes |-> 0,
     resume_ids |-> resume_ids]

\* Tasks of the current run of a session, and tasks a reset or delete left behind.
LiveTasks(s) == {t \in tasks : t.session = s /\ ~t.cancelled}
Dispatched(s) == LiveTasks(s) # {}

\* A reset or delete that leaves the tasks of the run as they are.
CancelTasks_LeavesLive(s) == tasks

\* A reset or delete stops nothing in flight: running tasks stay, marked so
\* that their late result is discarded; settled tasks are forgotten.
CancelTasks(s) ==
    {t \in tasks : t.session # s}
        \cup {[t EXCEPT !.cancelled = TRUE] : t \in {x \in tasks : x.session = s /\ x.pc = "running"}}

\* ---------------------------------------------------------------- actions
CreateSession(s, job_posting_id, resume_ids) ==
    /\ FreshSessionId(s)
    /\ resume_ids # {}
    /\ resume_ids \subseteq DOMAIN resumes
    /\ analysis_sessions' = Put(analysis_sessions, s, NewSession(job_posting_id, resume_ids))
    /\ UNCHANGED <<resumes, resume_analyses, deleted, tasks, lastError, ret, ui>>

\* A delete under a foreign key that does not cascade.
DeleteSession_NoCascade(s) ==
    /\ s \in DOMAIN analysis_sessions
    /\ analysis_sessions' = Drop(analysis_sessions, s)
    /\ deleted' = deleted \cup {s}
    /\ tasks' = CancelTasks(s)
    /\ UNCHANGED <<resumes, resume_analyses, lastError, ret, ui>>

\* DELETE FROM analysis_sessions: ON DELETE CASCADE removes its result rows.
DeleteSession(s) ==
    /\ s \in DOMAIN analysis_sessions
    /\ analysis_sessions' = Drop(analysis_sessions, s)
    /\ resume_analyses' = resume_analyses \ RowsOf(resume_analyses, s)
    /\ deleted' = deleted \cup {s}
    /\ tasks' = CancelTasks(s)
    /\ UNCHANGED <<resumes, lastError, ret, ui>>

\* A reset that zeroes the session row and forgets its result rows.
ResetSession_KeepsRows(s) ==
    /\ s \in DOMAIN analysis_sessions
    /\ analysis_sessions' =
          [analysis_sessions EXCEPT ![s].status = "pending", ![s].processed_resumes = 0]
    /\ tasks' = CancelTasks(s)
    /\ UNCHANGED <<resumes, resume_analyses, deleted, lastError, ret, ui>>

ResetSession(s) ==
    /\ s \in DOMAIN analysis_sessions
    /\ analysis_sessions' =
          [analysis_sessions EXCEPT ![s].status = "pending", ![s].processed_resumes = 0]
    /\ resume_analyses' = resume_analyses \ RowsOf(resume_analyses, s)
    /\ tasks' = CancelTasks(s)
    /\ UNCHANGED <<resumes, deleted, lastError, ret, ui>>

\* ------------------------------------------------ session state machine
NewTask(s, r) == [session |-> s, resume |-> r, pc |-> "running", cancelled |-> FALSE, llm |-> "none"]

StartSession(s) ==
    /\ s \in DOMAIN analysis_sessions
    /\ analysis_sessions[s].status = "pending"
    /\ analysis_sessions' = [analysis_sessions EXCEPT ![s].status = "processing"]
    /\ UNCHANGED <<resumes, resume_analyses, deleted, tasks, lastError, ret, ui>>

\* An orchestration error (the job context cannot be read) is found before
\* any per-resume task is dispatched.
OrchestrationError(s) ==
    /\ s \in DOMAIN analysis_sessions
    /\ analysis_sessions[s].status = "processing"
    /\ ~Dispatched(s)
    /\ analysis_sessions' = [analysis_sessions EXCEPT ![s].status = "failed"]
    /\ UNCHANGED <<resumes, resume_analyses, deleted, tasks, lastError, ret, ui>>

\* A dispatch loop that leaves one resume of the session out.
Dispatch_SkipsOne(s) ==
    /\ s \in DOMAIN analysis_sessions
    /\ analysis_sessions[s].status = "processing"
    /\ ~Dispatched(s)
    /\ tasks' = tasks \cup {NewTask(s, r) : r \in {x \in analysis_sessions[s].resume_ids :
                     \E y \in analysis_sessions[s].resume_ids : y > x
                     \/ Cardinality(analysis_sessions[s].resume_ids) = 1}}
    /\ UNCHANGED <<resumes, analysis_sessions, resume_analyses, deleted, lastError, ret, ui>>

\* A dispatch loop over every uploaded resume, not over the session's own.
Dispatch_AllResumes(s) ==
    /\ s \in DOMAIN analysis_sessions
    /\ analysis_sessions[s].status = "processing"
    /\ ~Dispatched(s)
    /\ tasks' = tasks \cup {NewTask(s, r) : r \in DOMAIN resumes}
    /\ UNCHANGED <<resumes, analysis_sessions, resume_analyses, deleted, lastError, ret, ui>>

\* tasks.append(...) for every resume of the session, then asyncio.gather.
Dispatch(s) ==
    /\ s \in DOMAIN analysis_sessions
    /\ analysis_sessions[s].status = "processing"
    /\ ~Dispatched(s)
    /\ tasks' = tasks \cup {NewTask(s, r) : r \in analysis_sessions[s].resume_ids}
    /\ UNCHANGED <<resumes, analysis_sessions, resume_analyses, deleted, lastError, ret, ui>>

\* An increment applied only every second time (a lost update).
StoreIncrement_Lost(processed_resumes) ==
    IF processed_resumes = 0 THEN processed_resumes + 1 ELSE processed_resumes

StoreIncrement(processed_resumes) == processed_resumes + 1

\* A store that writes whatever arrives, late results included.
store_analysis_results_KeepsLate(t, result) ==
    LET out == record(resume_analyses, analysis_sessions, t.resume, t.session, result) IN
    IF out.error # "none"
    THEN [error |-> IF t.cancelled THEN "none" ELSE out.error,
          rows |-> resume_analyses,
          sessions |-> analysis_sessions]
    ELSE [error |-> "none",
          rows |-> out.rows,
          sessions |-> [analysis_sessions EXCEPT
                          ![t.session].processed_resumes = StoreIncrement(@)]]

\* store_analysis_results: the row and the increment are one transaction;
\* the result of a task that a reset or delete left behind is discarded.
store_analysis_results(t, result) ==
    LET out == record(resume_analyses, analysis_sessions, t.resume, t.session, result) IN
    IF t.cancelled \/ out.error # "none"
    THEN [error |-> IF t.cancelled THEN "none" ELSE out.error,
          rows |-> resume_analyses,
          sessions |-> analysis_sessions]
    ELSE [error |-> "none",
          rows |-> out.rows,
          sessions |-> [analysis_sessions EXCEPT
                          ![t.session].processed_resumes = StoreIncrement(@)]]

\* One per-resume task, from download to store.  outcome is Exception when
\* the download or the text extraction raises, else the reply of the chain.
process_single_resume(t, outcome) ==
    /\ t \in tasks
    /\ t.pc = "running"
    /\ LET ai_result == IF outcome.kind = "exception" THEN Raised
                         ELSE analyze_resume_with_ai(outcome)
           stored == IF ai_result.raised
                      THEN [error |-> "exception", rows |-> resume_analyses,
                            sessions |-> analysis_sessions]
                      ELSE store_analysis_results(t, ai_result.result)
           llm == IF outcome.kind = "exception" THEN "none"
                  ELSE IF outcome.kind = "raise" THEN "fail" ELSE "ok"
       IN /\ resume_analyses' = stored.rows
          /\ analysis_sessions' = stored.sessions
          /\ tasks' = IF t.cancelled
                      THEN tasks \ {t}
                      ELSE (tasks \ {t}) \cup
                             {[t EXCEPT !.pc = IF stored.error = "none" THEN "settled" ELSE "error",
                                        !.llm = llm]}
    /\ UNCHANGED <<resumes, deleted, lastError, ret, ui>>

\* A completion taken as soon as gather returns, whatever the counter says.
CompleteSession_AfterGather(s) ==
    /\ s \in DOMAIN analysis_sessions
    /\ analysis_sessions[s].status = "processing"
    /\ Dispatched(s)
    /\ \A t \in LiveTasks(s) : t.pc # "running"
    /\ analysis_sessions' = [analysis_sessions EXCEPT ![s].status = "completed"]
    /\ UNCHANGED <<resumes, resume_analyses, deleted, tasks, lastError, ret, ui>>

CompleteSession(s) ==
    /\ s \in DOMAIN analysis_sessions
    /\ analysis_sessions[s].status = "processing"
    /\ analysis_sessions[s].processed_resumes = analysis_sessions[s].total_resumes
    /\ analysis_sessions' = [analysis_sessions EXCEPT ![s].status = "completed"]
    /\ UNCHANGED <<resumes, resume_analyses, deleted, tasks, lastError, ret, ui>>

\* Math.round of processed / total * 100; 0 for a session without resumes.
getProgressPercentage(session) ==
    IF session.total_resumes = 0 THEN 0
    ELSE (session.processed_resumes * 200 + session.total_resumes)
            \div (2 * session.total_resumes)

\* Width of the dashboard bar of a processing session, in per cent.
ProgressBarWidth(session) ==
    (session.processed_resumes * 100) \div session.total_resumes

TaskOutcomes == {Exception} \cup PipelineResponses

Init ==
    /\ resumes = [r \in Resumes |-> [user_id |-> 1, s3_resume_key |-> 1]]
    /\ analysis_sessions = [x \in {} |-> x]
    /\ resume_analyses = {}
    /\ deleted = {}
    /\ tasks = {}
    /\ lastError = "none"
    /\ ui = NoUi
    /\ ret = NULL

Next ==
    \/ \E s \in SessionIds, j \in Contexts, rs \in SUBSET Resumes : CreateSession(s, j, rs)
    \/ \E s \in SessionIds : StartSession(s)
    \/ \E s \in SessionIds : OrchestrationError(s)
    \/ \E s \in SessionIds : Dispatch(s)
    \/ \E t \in tasks, o \in TaskOutcomes : process_single_resume(t, o)
    \/ \E s \in SessionIds : CompleteSession(s)
    \/ \E s \in SessionIds : ResetSession(s)
    \/ \E s \in SessionIds : DeleteSession(s)

Spec == Init /\ [][Next]_vars

\* A run that nobody deletes or resets and that no orchestration error
\* hits; the event loop runs every task it was given and the orchestrator
\* takes every step open to it.
LiveNext ==
    \/ \E s \in SessionIds, j \in Contexts, rs \in SUBSET Resumes : CreateSession(s, j, rs)
    \/ \E s \in SessionIds : StartSession(s)
    \/ \E s \in SessionIds : Dispatch(s)
    \/ \E t \in tasks, o \in TaskOutcomes : process_single_resume(t, o)
    \/ \E s \in SessionIds : CompleteSession(s)

LiveSpec ==
    /\ Init
    /\ [][LiveNext]_vars
    /\ \A s \in SessionIds : WF_vars(Dispatch(s))
    /\ WF_vars(\E t \in tasks, o \in TaskOutcomes : process_single_resume(t, o))
    /\ \A s \in SessionIds : WF_vars(CompleteSession(s))

\* Store-level operations, as a test of the store drives them.
SetStatus(s, status) ==
    /\ s \in DOMAIN analysis_sessions
    /\ analysis_sessions[s].status # status
    /\ analysis_sessions' = [analysis_sessions EXCEPT ![s].status = status]
    /\ UNCHANGED <<resumes, resume_analyses, deleted, tasks, lastError, ret, ui>>

Record(resume_id, session_id, result) ==
    LET out == record(resume_analyses, analysis_sessions, resume_id, session_id, result) IN
    /\ resume_analyses' = out.rows
    /\ lastError' = out.error
    /\ UNCHANGED <<resumes, analysis_sessions, deleted, tasks, ret, ui>>

StoreResults == {_get_fallback_analysis, analyze_resume_with_ai(GoodResponse).result}

StoreInit ==
    /\ resumes \in [Resumes -> [user_id : Users, s3_resume_key : S3Keys]]
    /\ analysis_sessions = [x \in {} |-> x]
    /\ resume_analyses = {}
    /\ deleted = {}
    /\ tasks = {}
    /\ lastError = "none"
    /\ ui = NoUi
    /\ ret = NULL

StoreNext ==
    \/ \E s \in SessionIds, j \in Contexts : CreateSession(s, j, Resumes)
    \/ \E s \in SessionIds, st \in Statuses : SetStatus(s, st)
    \/ \E r \in Resumes, s \in SessionIds, res \in StoreResults : Record(r, s, res)
    \/ \E s \in SessionIds : ResetSession(s)
    \/ \E s \in SessionIds : DeleteSession(s)

StoreSpec == StoreInit /\ [][StoreNext]_vars

\* ------------------------------------------------------- scoring calls
\* Why a call of the chain fails.
FailureKinds == {"network", "timeout", "rate-limit", "malformed response"}

Raises == {[kind |-> "raise", reason |-> reason] : reason \in FailureKinds}

\* Scores a reply may carry: the model is asked for 0 to 100 and nothing
\* keeps it from answering outside that range.
ScoreSamples == {-5, 50, 150}

\* Every JSON object holding some of the six fields.
ScoreObjects ==
    {[f \in D |-> IF f = "Summary" THEN "Strong candidate" ELSE v[f]] :
        D \in SUBSET RequiredFields, v \in [ScoreFields -> ScoreSamples]}

ScoreResponses == Raises \cup {Json(obj) : obj \in ScoreObjects}

\* One call of the scoring function on the reply the chain gives.
AnalyzeResume ==
    LET out == analyze_resume_with_ai(ret.response) IN
    /\ ret.fn = "none"
    /\ ret' = [fn |-> "analyze_resume_with_ai", response |-> ret.response,
                raised |-> out.raised, result |-> out.result]
    /\ UNCHANGED <<resumes, analysis_sessions, resume_analyses, deleted, tasks, lastError, ui>>

ScoreInit ==
    /\ resumes = [r \in Resumes |-> [user_id |-> 1, s3_resume_key |-> 1]]
    /\ analysis_sessions = [x \in {} |-> x]
    /\ resume_analyses = {}
    /\ deleted = {}
    /\ tasks = {}
    /\ lastError = "none"
    /\ ui = NoUi
    /\ \E response \in ScoreResponses : ret = [fn |-> "none", response |-> response]

ScoreNext == AnalyzeResume

ScoreSpec == ScoreInit /\ [][ScoreNext]_vars

\* ------------------------------------------------------ evidence chunks
\* top_chunks = sorted(chunks, key=lambda x: x[1])[:5]
TopK == 5

\* chunks of one resume as the search returns them: (doc, distance) pairs,
\* doc being the place of the chunk in that list.
Distances == 1..MaxDistance

ChunkLists ==
    UNION {{[i \in 1..n |-> [doc |-> i, distance |-> d[i]]] : d \in [1..n -> Distances]} :
            n \in 0..MaxChunks}

\* An insertion that puts the new element before the elements of its key.
Insert_BeforeEquals(x, seq) ==
    LET k == Cardinality({i \in 1..Len(seq) : seq[i].distance < x.distance}) IN
    SubSeq(seq, 1, k) \o <<x>> \o SubSeq(seq, k + 1, Len(seq))

\* sorted() is stable: an element goes behind every element whose key is
\* not greater than its own.
Insert(x, seq) ==
    LET k == Cardinality({i \in 1..Len(seq) : seq[i].distance <= x.distance}) IN
    SubSeq(seq, 1, k) \o <<x>> \o SubSeq(seq, k + 1, Len(seq))

RECURSIVE SortedPrefix(_, _)
SortedPrefix(chunks, n) ==
    IF n = 0 THEN << >> ELSE Insert(chunks[n], SortedPrefix(chunks, n - 1))

sorted(chunks) == SortedPrefix(chunks, Len(chunks))

top_chunks(chunks) ==
    LET s == sorted(chunks) IN
    SubSeq(s, 1, IF Len(s) < TopK THEN Len(s) ELSE TopK)

TopChunks ==
    /\ ret.fn = "none"
    /\ ret' = [fn |-> "top_chunks", chunks |-> ret.chunks, top_chunks |-> top_chunks(ret.chunks)]
    /\ UNCHANGED <<resumes, analysis_sessions, resume_analyses, deleted, tasks, lastError, ui>>

QueryInit ==
    /\ resumes = [r \in Resumes |-> [user_id |-> 1, s3_resume_key |-> 1]]
    /\ analysis_sessions = [x \in {} |-> x]
    /\ resume_analyses = {}
    /\ deleted = {}
    /\ tasks = {}
    /\ lastError = "none"
    /\ ui = NoUi
    /\ \E chunks \in ChunkLists : ret = [fn |-> "none", chunks |-> chunks]

QueryNext == TopChunks

QuerySpec == QueryInit /\ [][QueryNext]_vars

\* ------------------------------------------------------ evidence digest
\* The text chunks of a resume; a chunk is known by its resume and its place.
OwnChunks(r, n) == [i \in 1..n |-> [resume |-> r, i |-> i]]

\* How near a chunk can be to the job text.
NearFar == {1, 2}

\* What a search of the index of one resume can answer: its chunks, each
\* with some distance.
SearchResults(index) ==
    {[i \in 1..Len(index) |-> [doc |-> index[i], distance |-> d[i]]] :
        d \in [1..Len(index) -> NearFar]}

\* A digest drawn from the chunks of every resume searched so far.
summary_text_Accumulated(chunks) ==
    LET earlier == UNION {{ret.top_resumes[r][i].doc : i \in 1..Len(ret.top_resumes[r])} :
                            r \in ret.searched}
        kept == top_chunks(chunks)
        own == [i \in 1..Len(kept) |-> kept[i].doc]
    IN IF earlier = {} THEN own ELSE own \o <<CHOOSE c \in earlier : TRUE>>

\* "\n---\n".join(doc.page_content.strip() for doc, _ in top_chunks): the
\* digest as the list of the chunks it joins.
summary_text(chunks) ==
    LET kept == top_chunks(chunks) IN [i \in 1..Len(kept) |-> kept[i].doc]

\* vector_store = FAISS.from_texts(chunks, embedding_model), one store for
\* each resume, holding the chunks of that resume.
BuildIndex(r) ==
    /\ ret.fn = "gather"
    /\ r \notin ret.built
    /\ ret' = [ret EXCEPT !.built = @ \cup {r},
                           !.index[r] = OwnChunks(r, ret.n[r])]
    /\ UNCHANGED <<resumes, analysis_sessions, resume_analyses, deleted, tasks, lastError, ui>>

\* One turn of the loop over top_resumes: the entry of one resume is the
\* answer of its own store, and its digest is made of that entry.
GatherEvidence(r) ==
    /\ ret.fn = "gather"
    /\ r \in ret.built
    /\ r \notin ret.searched
    /\ \E chunks \in SearchResults(ret.index[r]) :
          ret' = [ret EXCEPT !.searched = @ \cup {r},
                             !.top_resumes[r] = chunks,
                             !.evidence[r] = summary_text(chunks)]
    /\ UNCHANGED <<resumes, analysis_sessions, resume_analyses, deleted, tasks, lastError, ui>>

DigestInit ==
    /\ resumes = [r \in Resumes |-> [user_id |-> 1, s3_resume_key |-> 1]]
    /\ analysis_sessions = [x \in {} |-> x]
    /\ resume_analyses = {}
    /\ deleted = {}
    /\ tasks = {}
    /\ lastError = "none"
    /\ ui = NoUi
    /\ \E n \in [Resumes -> 0..MaxOwnChunks] :
          ret = [fn |-> "gather", n |-> n, built |-> {}, searched |-> {},
                 index |-> [r \in Resumes |-> << >>],
                 top_resumes |-> [r \in Resumes |-> << >>],
                 evidence |-> [r \in Resumes |-> << >>]]

DigestNext ==
    \/ \E r \in Resumes : BuildIndex(r)
    \/ \E r \in Resumes : GatherEvidence(r)

DigestSpec == DigestInit /\ [][DigestNext]_vars

\* ------------------------------------------------------- cleanup sweep
\* A sweep with the membership test turned round.
cleanup_orphaned_analyses_Inverted(rows, sessions) ==
    LET kept == {ra \in rows : ra.analysis_session_id \notin DOMAIN sessions} IN
    [rows |-> kept, deleted_count |-> Cardinality(rows \ kept)]

\* DELETE FROM resume_analyses WHERE analysis_session_id NOT IN (SELECT id
\* FROM analysis_sessions); the function returns ROW_COUNT.
cleanup_orphaned_analyses(rows, sessions) ==
    LET kept == {ra \in rows : ra.analysis_session_id \in DOMAIN sessions} IN
    [rows |-> kept, deleted_count |-> Cardinality(rows \ kept)]

Cleanup ==
    LET out == cleanup_orphaned_analyses(resume_analyses, analysis_sessions) IN
    /\ resume_analyses' = out.rows
    /\ ret' = out.deleted_count
    /\ UNCHANGED <<resumes, analysis_sessions, deleted, tasks, lastError, ui>>

\* The sweep is defined on any content of the two tables, rows left without
\* their session included; every such content is an input.
CandidateRows ==
    {AnalysisRow(r, s, res) : r \in Resumes, s \in SessionIds, res \in StoreResults}

UniquePairs(rows) ==
    \A x, y \in rows :
        (x.resume_id = y.resume_id /\ x.analysis_session_id = y.analysis_session_id) => x = y

CleanupInit ==
    /\ resumes = [r \in Resumes |-> [user_id |-> 1, s3_resume_key |-> 1]]
    /\ \E D \in SUBSET SessionIds :
          /\ analysis_sessions = [s \in D |-> NewSession(NULL, Resumes)]
          /\ deleted = SessionIds \ D
    /\ resume_analyses \in {rows \in SUBSET CandidateRows : UniquePairs(rows)}
    /\ tasks = {}
    /\ lastError = "none"
    /\ ui = NoUi
    /\ ret = NULL

CleanupNext == Cleanup

CleanupSpec == CleanupInit /\ [][CleanupNext]_vars

\* ---------------------------------------------------------- analysis page
\* What the extractor leaves when it finds nothing: the name falls back to
\* "Unknown Candidate" and the email to the empty string.
Names == {"Asha Rao", "Unknown Candidate"}
Emails == {"asha@example.com", ""}
OverallFits == {DefaultScore, 85}

Candidates ==
    [resume_id : Resumes, name : Names, email : Emails, overall_fit : OverallFits]

\* The result rows of a session in the order they were written, one for a resume.
WrittenRows ==
    {w \in UNION {[1..n -> Candidates] : n \in 0..MaxResume} :
        \A i, j \in 1..Len(w) : w[i].resume_id = w[j].resume_id => i = j}

\* The rows as written, unsorted.
results_by_overall_fit_Unsorted(written) == written

InsertDesc(x, seq) ==
    LET k == Cardinality({i \in 1..Len(seq) : seq[i].overall_fit >= x.overall_fit}) IN
    SubSeq(seq, 1, k) \o <<x>> \o SubSeq(seq, k + 1, Len(seq))

RECURSIVE SortedDescPrefix(_, _)
SortedDescPrefix(written, n) ==
    IF n = 0 THEN << >> ELSE InsertDesc(written[n], SortedDescPrefix(written, n - 1))

\* GET /analysis-sessions/{id}: the results re-sorted by overall fit, descending.
results_by_overall_fit(written) == SortedDescPrefix(written, Len(written))

\* The replies of GET /analysis-sessions/{id}: a failure, or the session
\* with its results.  Only a processing or completed session has rows, and
\* a completed one has all of them.
RepliesWith(st, rows) ==
    {[ok |-> TRUE,
      session |-> [status |-> st,
                   total_resumes |-> IF st = "completed" THEN Len(w) ELSE MaxResume,
                   processed_resumes |-> Len(w)],
      written |-> w,
      results |-> results_by_overall_fit(w)] : w \in rows}

SessionReplies ==
    {[ok |-> FALSE]}
      \cup RepliesWith("processing", WrittenRows)
      \cup RepliesWith("completed", {w \in WrittenRows : Len(w) >= 1})
      \cup RepliesWith("pending", {<< >>})
      \cup RepliesWith("failed", {<< >>})

NoSession == [status |-> "none", total_resumes |-> 0, processed_resumes |-> 0]

\* data.results.filter((candidate, index, self) => index === self.findIndex(
\*   c => c.name === candidate.name && c.email === candidate.email))
uniqueResults(results) ==
    LET kept == {i \in 1..Len(results) :
                    \A j \in 1..(i - 1) :
                        ~(results[j].name = results[i].name /\ results[j].email = results[i].email)}
    IN [n \in 1..Cardinality(kept) |->
            results[CHOOSE i \in kept : Cardinality({j \in kept : j <= i}) = n]]

\* results.map((candidate, index) => <CandidateCard rank={index + 1} />)
CandidateCards(results) ==
    [index \in 1..Len(results) |-> [rank |-> index, candidate |-> results[index]]]

\* ResultsDisplay: the spinner with the progress bar, the empty notice, or
\* the cards.
ResultsDisplay ==
    IF ui.isAnalyzing THEN [view |-> "progress", cards |-> << >>]
    ELSE IF Len(ui.analysisResults) = 0 THEN [view |-> "empty", cards |-> << >>]
    ELSE [view |-> "results", cards |-> CandidateCards(ui.analysisResults)]

\* fetchAnalysisResults up to its await.
fetchAnalysisResults ==
    /\ ui.pc \in {"idle", "done"}
    /\ ui' = [ui EXCEPT !.pc = "awaiting", !.isAnalyzing = TRUE, !.error = FALSE]
    /\ UNCHANGED <<resumes, analysis_sessions, resume_analyses, deleted, tasks, lastError, ret>>

\* The request resolves: the rest of the try block, then the finally block,
\* whose setIsAnalyzing(false) is the last write.
FetchResolved ==
    /\ ui.pc = "awaiting"
    /\ ui.reply.ok
    /\ LET inTry == [ui EXCEPT !.session = ui.reply.session,
                                !.analysisResults = uniqueResults(ui.reply.results),
                                !.isAnalyzing = (ui.reply.session.status = "processing")]
       IN ui' = [inTry EXCEPT !.isAnalyzing = FALSE, !.pc = "done"]
    /\ UNCHANGED <<resumes, analysis_sessions, resume_analyses, deleted, tasks, lastError, ret>>

\* The request rejects: the catch block, then the finally block.
FetchRejected ==
    /\ ui.pc = "awaiting"
    /\ ~ui.reply.ok
    /\ ui' = [ui EXCEPT !.error = TRUE, !.isAnalyzing = FALSE, !.pc = "done"]
    /\ UNCHANGED <<resumes, analysis_sessions, resume_analyses, deleted, tasks, lastError, ret>>

PageInit ==
    /\ resumes = [r \in Resumes |-> [user_id |-> 1, s3_resume_key |-> 1]]
    /\ analysis_sessions = [x \in {} |-> x]
    /\ resume_analyses = {}
    /\ deleted = {}
    /\ tasks = {}
    /\ lastError = "none"
    /\ ret = NULL
    /\ \E reply \in SessionReplies :
          ui = [component |-> "analyse", pc |-> "idle", reply |-> reply,
                analysisResults |-> << >>, isAnalyzing |-> FALSE,
                session |-> NoSession, error |-> FALSE]

PageNext ==
    \/ fetchAnalysisResults
    \/ FetchResolved
    \/ FetchRejected

PageSpec == PageInit /\ [][PageNext]_vars

\* ------------------------------------------------------ notification popup
\* Calls of showNotification the model follows; the n-th call names the
\* notification it puts on screen.
MaxShow == 3

\* setTimeout(() => onClose(), 200): the wait for the closing animation.
AnimationDelay == 200

\* Time advances in steps of one animation delay.
TimeStep == AnimationDelay

ShowKinds == {"showSuccess", "showError", "showWarning", "showInfo", "showConfirm"}

NotificationType(kind) ==
    CASE kind = "showSuccess" -> "success"
      [] kind = "showError" -> "error"
      [] kind = "showWarning" -> "warning"
      [] kind = "showInfo" -> "info"
      [] kind = "showConfirm" -> "warning"

Duration(kind) ==
    CASE kind = "showSuccess" -> 3000
      [] kind = "showError" -> 0
      [] kind = "showWarning" -> 4000
      [] kind = "showInfo" -> 3000
      [] kind = "showConfirm" -> 0

\* Longest time a notification is followed on screen.
OpenForCap == Duration("showWarning") + AnimationDelay + TimeStep

\* useState of useNotification: nothing open; the popup's duration prop
\* defaults to 0.
NoNotification == [isOpen |-> FALSE, type |-> "info", duration |-> 0, n |-> 0]

\* setNotification({...config, isOpen: true})
showNotification(kind, n) ==
    [isOpen |-> TRUE, type |-> NotificationType(kind), duration |-> Duration(kind), n |-> n]

\* setNotification(prev => ({...prev, isOpen: false}))
hideNotification(prev) == [prev EXCEPT !.isOpen = FALSE]

\* A pending setTimeout: the auto-close timer of the effect or the delayed
\* onClose of handleClose, the notification on screen when it was set and
\* what set it off.
Timer(kind, due, n, by) == [kind |-> kind, due |-> due, for |-> n, by |-> by]

\* The effect of the popup after a render with the given props: it runs only
\* when isOpen or duration differ from the last run, and its cleanup clears
\* the auto-close timer of that run; the delayed onClose is never cleared.
useEffect(popup, notification) ==
    LET deps == [isOpen |-> notification.isOpen, duration |-> notification.duration] IN
    IF deps = popup.deps
    THEN popup
    ELSE LET kept == {t \in popup.timers : t.kind # "auto"} IN
         [popup EXCEPT
            !.deps = deps,
            !.isVisible = notification.isOpen,
            !.timers = IF notification.isOpen /\ notification.duration > 0
                       THEN kept \cup {Timer("auto", notification.duration, notification.n, "timer")}
                       ELSE kept]

\* handleClose: setIsVisible(false), then onClose after the animation delay.
handleClose(popup, n, by) ==
    [popup EXCEPT !.isVisible = FALSE,
                  !.timers = @ \cup {Timer("close", AnimationDelay, n, by)}]

Popup == [isVisible |-> ui.isVisible, deps |-> ui.deps, timers |-> ui.timers]

Rendered(notification, openFor, popup) ==
    [component |-> "notification", notification |-> notification, openFor |-> openFor,
     isVisible |-> popup.isVisible, deps |-> popup.deps, timers |-> popup.timers]

BackendIdle ==
    UNCHANGED <<resumes, analysis_sessions, resume_analyses, deleted, tasks, lastError, ret>>

\* showSuccess, showError, showWarning, showInfo or showConfirm, and the
\* render that follows.
Show(kind) ==
    /\ ui.notification.n < MaxShow
    /\ LET notification == showNotification(kind, ui.notification.n + 1) IN
       ui' = Rendered(notification, 0, useEffect(Popup, notification))
    /\ BackendIdle

\* The close button, the backdrop or the OK button of the popup on screen.
UserClose ==
    /\ ui.notification.isOpen
    /\ ui' = Rendered(ui.notification, ui.openFor,
                      handleClose(Popup, ui.notification.n, "user"))
    /\ BackendIdle

\* The auto-close timer comes due and calls handleClose.
FireAuto(t) ==
    /\ t \in ui.timers
    /\ t.kind = "auto"
    /\ t.due = 0
    /\ ui' = Rendered(ui.notification, ui.openFor,
                      handleClose([Popup EXCEPT !.timers = @ \ {t}], t.for, "timer"))
    /\ BackendIdle

\* The delayed onClose comes due: hideNotification, and the render that follows.
FireClose(t) ==
    /\ t \in ui.timers
    /\ t.kind = "close"
    /\ t.due = 0
    /\ LET notification == hideNotification(ui.notification) IN
       ui' = Rendered(notification, ui.openFor,
                      useEffect([Popup EXCEPT !.timers = @ \ {t}], notification))
    /\ BackendIdle

\* Time passes when no timer is due.
Tick ==
    /\ \A t \in ui.timers : t.due > 0
    /\ ui.timers # {} \/ (ui.notification.isOpen /\ ui.openFor < OpenForCap)
    /\ ui' = [ui EXCEPT
                !.timers = {[t EXCEPT !.due = @ - TimeStep] : t \in ui.timers},
                !.openFor = IF ui.notification.isOpen /\ @ < OpenForCap
                            THEN @ + TimeStep ELSE @]
    /\ BackendIdle

NotifyInit ==
    /\ resumes = [r \in Resumes |-> [user_id |-> 1, s3_resume_key |-> 1]]
    /\ analysis_sessions = [x \in {} |-> x]
    /\ resume_analyses = {}
    /\ deleted = {}
    /\ tasks = {}
    /\ lastError = "none"
    /\ ret = NULL
    /\ ui = Rendered(NoNotification, 0,
                     [isVisible |-> FALSE,
                      deps |-> [isOpen |-> FALSE, duration |-> 0],
                      timers |-> {}])

NotifyNext ==
    \/ \E kind \in ShowKinds : Show(kind)
    \/ UserClose
    \/ \E t \in ui.timers : FireAuto(t)
    \/ \E t \in ui.timers : FireClose(t)
    \/ Tick

\* Timers that are due fire, and time does not stop.
NotifySpec ==
    /\ NotifyInit
    /\ [][NotifyNext]_vars
    /\ WF_vars(Tick)
    /\ WF_vars(\E t \in ui.timers : FireAuto(t))
    /\ WF_vars(\E t \in ui.timers : FireClose(t))

\* ------------------------------------------------- resume selection page
\* GET /resumes/s3/: every resume of the user with its flag for the job
\* context of the request (no job_posting_id: the general context).
S3ResumesResponse(job_posting_id) ==
    [r \in DOMAIN resumes |->
        [s3_key |-> r,
         is_analyzed |-> ~is_resume_available_for_analysis(r, job_posting_id)]]

\* A request in flight: the list fetch of one render, started by the effect
\* or the Refresh button ("effect") or awaited by a select handler ("select").
ListFetch(job_posting_id, by) == [job_posting_id |-> job_posting_id, by |-> by]

\* fetchS3Resumes up to its await: the url is built from the selectedJobId
\* of the render that made the callback.
fetchS3Resumes(page, job_posting_id, by) ==
    [page EXCEPT !.isLoadingResumes = TRUE,
                 !.fetches = @ \cup {ListFetch(job_posting_id, by)}]

filteredResumes == ui.s3Resumes

availableResumes == {r \in DOMAIN filteredResumes : ~filteredResumes[r].is_analyzed}

\* handleSelectResume up to its await, for each resume of a set: the checks,
\* then the POST with the job context selected now.
handleSelectResume(page, rs) ==
    LET accepted == {r \in rs : ~page.s3Resumes[r].is_analyzed /\ r \notin page.selectedResumes} IN
    IF accepted = {} THEN page
    ELSE [page EXCEPT
            !.isProcessing = TRUE,
            !.selectedResumes = @ \cup accepted,
            !.posts = @ \cup {[s3_key |-> r, job_posting_id |-> page.selectedJobId] : r \in accepted}]

\* The job buttons: setSelectedJobId, and the effect that fetches the list
\* for the new context.
SelectJob(j) ==
    /\ j # ui.selectedJobId
    /\ ui' = fetchS3Resumes([ui EXCEPT !.selectedJobId = j], j, "effect")
    /\ BackendIdle

\* The Refresh button.
RefreshResumes ==
    /\ ~ui.isLoadingResumes
    /\ ListFetch(ui.selectedJobId, "effect") \notin ui.fetches
    /\ ui' = fetchS3Resumes(ui, ui.selectedJobId, "effect")
    /\ BackendIdle

\* The list request answers: setS3Resumes(response.data), then finally.
ListResolved(f) ==
    /\ f \in ui.fetches
    /\ ui' = [ui EXCEPT !.s3Resumes = S3ResumesResponse(f.job_posting_id),
                        !.isLoadingResumes = FALSE,
                        !.isProcessing = IF f.by = "select" THEN FALSE ELSE @,
                        !.fetches = @ \ {f}]
    /\ BackendIdle

\* The list request fails: the catch logs, the list stays.
ListRejected(f) ==
    /\ f \in ui.fetches
    /\ ui' = [ui EXCEPT !.isLoadingResumes = FALSE,
                        !.isProcessing = IF f.by = "select" THEN FALSE ELSE @,
                        !.fetches = @ \ {f}]
    /\ BackendIdle

\* The Select button of one row; rows are on screen when no list is loading.
SelectResume(r) ==
    /\ ~ui.isLoadingResumes
    /\ r \in availableResumes
    /\ ~ui.isProcessing
    /\ r \notin ui.selectedResumes
    /\ ui' = handleSelectResume(ui, {r})
    /\ BackendIdle

\* The Select All button.
handleSelectAll ==
    /\ ~ui.isProcessing
    /\ availableResumes # {}
    /\ availableResumes \ ui.selectedResumes # {}
    /\ ui' = handleSelectResume(ui, availableResumes)
    /\ BackendIdle

\* POST /resumes/select answers: the handler goes on to refresh the list
\* with the fetchS3Resumes of its own render.
SelectAnswered(p) ==
    /\ p \in ui.posts
    /\ p \notin ui.answered
    /\ ui' = fetchS3Resumes([ui EXCEPT !.answered = @ \cup {p}], p.job_posting_id, "select")
    /\ BackendIdle

\* Completed sessions of two contexts with result rows for some resumes.
UploadInit ==
    /\ resumes = [r \in Resumes |-> [user_id |-> 1, s3_resume_key |-> 1]]
    /\ \E c \in [SessionIds -> Contexts] :
          analysis_sessions =
              [s \in SessionIds |->
                  [NewSession(c[s], Resumes) EXCEPT !.status = "completed",
                                                    !.processed_resumes = MaxResume]]
    /\ \E R \in [SessionIds -> SUBSET Resumes] :
          resume_analyses =
              UNION {{AnalysisRow(r, s, _get_fallback_analysis) : r \in R[s]} : s \in SessionIds}
    /\ deleted = {}
    /\ tasks = {}
    /\ lastError = "none"
    /\ ret = NULL
    /\ ui = [component |-> "upload-resumes",
             selectedJobId |-> NULL,
             s3Resumes |-> [x \in {} |-> x],
             selectedResumes |-> {},
             isLoadingResumes |-> TRUE,
             isProcessing |-> FALSE,
             fetches |-> {ListFetch(NULL, "effect")},
             posts |-> {},
             answered |-> {}]

UploadNext ==
    \/ \E j \in Contexts : SelectJob(j)
    \/ RefreshResumes
    \/ \E f \in ui.fetches : ListResolved(f)
    \/ \E f \in ui.fetches : ListRejected(f)
    \/ \E r \in Resumes : SelectResume(r)
    \/ handleSelectAll
    \/ \E p \in ui.posts : SelectAnswered(p)

UploadSpec == UploadInit /\ [][UploadNext]_vars

\* --------------------------------------------------------- feedback modal
\* POST /feedback/generate/{resume_id}: the preview written for one resume;
\* its texts are named by the resume they were written for.
FeedbackPreview(resume_id) ==
    [candidate_name |-> resume_id,
     subject_suggestion |-> resume_id,
     feedback_content |-> resume_id]

\* useState<FeedbackPreview | null>(null); NULL also stands for the empty
\* string of customSubject and customFeedback.
NoPreview == [candidate_name |-> NULL, subject_suggestion |-> NULL, feedback_content |-> NULL]

\* generateFeedbackPreview up to its await.
generateFeedbackPreview(modal) ==
    [modal EXCEPT !.isGenerating = TRUE,
                  !.error = FALSE,
                  !.generating = @ \cup {modal.candidate}]

\* The parent opens the modal for a candidate; the effect on [isOpen,
\* candidate.resume_id] asks for a preview when the step is 'preview'.
OpenFeedback(c) ==
    /\ ~ui.isOpen
    /\ LET opened == [ui EXCEPT !.isOpen = TRUE, !.candidate = c] IN
       ui' = IF ui.step = "preview" THEN generateFeedbackPreview(opened) ELSE opened
    /\ BackendIdle

\* The generate request of resume c answers.
PreviewResolved(c) ==
    /\ c \in ui.generating
    /\ ui' = [ui EXCEPT !.feedbackPreview = FeedbackPreview(c),
                        !.customSubject = FeedbackPreview(c).subject_suggestion,
                        !.customFeedback = FeedbackPreview(c).feedback_content,
                        !.isGenerating = FALSE,
                        !.generating = @ \ {c}]
    /\ BackendIdle

\* The generate request of resume c fails.
PreviewRejected(c) ==
    /\ c \in ui.generating
    /\ ui' = [ui EXCEPT !.error = TRUE,
                        !.isGenerating = FALSE,
                        !.generating = @ \ {c}]
    /\ BackendIdle

\* disabled={!feedbackPreview || isSending}, in the footer of step 'preview'.
SendEnabled ==
    /\ ui.isOpen
    /\ ui.step = "preview"
    /\ ui.feedbackPreview # NoPreview
    /\ ~ui.isSending

\* handleSendFeedback up to its await: the mail asked of the backend.
handleSendFeedback ==
    /\ SendEnabled
    /\ ui' = [ui EXCEPT !.isSending = TRUE,
                        !.error = FALSE,
                        !.mails = @ \cup {[resume_id |-> ui.candidate,
                                           custom_subject |-> ui.customSubject,
                                           custom_feedback |-> ui.customFeedback]}]
    /\ BackendIdle

\* The send request answers, with success or with an error.
SendAnswered(ok) ==
    /\ ui.isSending
    /\ ui' = [ui EXCEPT !.step = IF ok THEN "sent" ELSE @,
                        !.success = IF ok THEN TRUE ELSE @,
                        !.error = ~ok,
                        !.isSending = FALSE]
    /\ BackendIdle

\* handleClose of the feedback modal: feedbackPreview is not among the state
\* it resets.
FeedbackClose ==
    /\ ui.isOpen
    /\ ui' = [ui EXCEPT !.step = "preview",
                        !.error = FALSE,
                        !.success = FALSE,
                        !.customSubject = NULL,
                        !.customFeedback = NULL,
                        !.isOpen = FALSE]
    /\ BackendIdle

FeedbackInit ==
    /\ resumes = [r \in Resumes |-> [user_id |-> 1, s3_resume_key |-> 1]]
    /\ analysis_sessions = [x \in {} |-> x]
    /\ resume_analyses = {}
    /\ deleted = {}
    /\ tasks = {}
    /\ lastError = "none"
    /\ ret = NULL
    /\ ui = [component |-> "FeedbackModal",
             isOpen |-> FALSE,
             candidate |-> 1,
             step |-> "preview",
             feedbackPreview |-> NoPreview,
             customSubject |-> NULL,
             customFeedback |-> NULL,
             isGenerating |-> FALSE,
             isSending |-> FALSE,
             error |-> FALSE,
             success |-> FALSE,
             generating |-> {},
             mails |-> {}]

FeedbackNext ==
    \/ \E c \in Resumes : OpenFeedback(c)
    \/ \E c \in Resumes : PreviewResolved(c)
    \/ \E c \in Resumes : PreviewRejected(c)
    \/ handleSendFeedback
    \/ \E ok \in BOOLEAN : SendAnswered(ok)
    \/ FeedbackClose

FeedbackSpec == FeedbackInit /\ [][FeedbackNext]_vars

\* ---------------------------------------------------- bulk feedback modal
\* Openings of the modal the model follows.
MaxOpen == 3

\* response.data.results of POST /feedback/send-bulk: one entry per
\* candidate with the success of its mail, named by the opening whose
\* request it answers.
BulkResults(request, sent) ==
    [r \in Resumes |-> [resume_id |-> r, success |-> sent[r], request |-> request]]

\* The parent opens the modal.
OpenBulk ==
    /\ ~ui.isOpen
    /\ ui.opening < MaxOpen
    /\ ui' = [ui EXCEPT !.isOpen = TRUE, !.opening = @ + 1]
    /\ BackendIdle

\* The subject field of the confirm step.
setCustomSubject(typed) ==
    /\ ui.isOpen
    /\ ui.step = "confirm"
    /\ ui.customSubject # typed
    /\ ui' = [ui EXCEPT !.customSubject = typed]
    /\ BackendIdle

\* handleSendBulkFeedback up to its await.
handleSendBulkFeedback ==
    /\ ui.isOpen
    /\ ui.step = "confirm"
    /\ ~ui.isSending
    /\ ui' = [ui EXCEPT !.isSending = TRUE,
                        !.error = FALSE,
                        !.step = "sending",
                        !.sending = @ \cup {ui.opening}]
    /\ BackendIdle

\* The bulk request of an opening answers.
BulkResolved(request, sent) ==
    /\ request \in ui.sending
    /\ ui' = [ui EXCEPT !.results = BulkResults(request, sent),
                        !.step = "results",
                        !.isSending = FALSE,
                        !.sending = @ \ {request}]
    /\ BackendIdle

\* The bulk request of an opening fails.
BulkRejected(request) ==
    /\ request \in ui.sending
    /\ ui' = [ui EXCEPT !.error = TRUE,
                        !.step = "confirm",
                        !.isSending = FALSE,
                        !.sending = @ \ {request}]
    /\ BackendIdle

\* handleClose of the bulk modal: the X of the header, Cancel or Close.
BulkClose ==
    /\ ui.isOpen
    /\ ui' = [ui EXCEPT !.step = "confirm",
                        !.error = FALSE,
                        !.results = << >>,
                        !.customSubject = "",
                        !.isOpen = FALSE]
    /\ BackendIdle

BulkInit ==
    /\ resumes = [r \in Resumes |-> [user_id |-> 1, s3_resume_key |-> 1]]
    /\ analysis_sessions = [x \in {} |-> x]
    /\ resume_analyses = {}
    /\ deleted = {}
    /\ tasks = {}
    /\ lastError = "none"
    /\ ret = NULL
    /\ ui = [component |-> "BulkFeedbackModal",
             isOpen |-> FALSE,
             opening |-> 0,
             step |-> "confirm",
             customSubject |-> "",
             isSending |-> FALSE,
             results |-> << >>,
             error |-> FALSE,
             sending |-> {}]

BulkNext ==
    \/ OpenBulk
    \/ \E typed \in {"", "Your application"} : setCustomSubject(typed)
    \/ handleSendBulkFeedback
    \/ \E request \in 1..MaxOpen, sent \in [Resumes -> BOOLEAN] : BulkResolved(request, sent)
    \/ \E request \in 1..MaxOpen : BulkRejected(request)
    \/ BulkClose

BulkSpec == BulkInit /\ [][BulkNext]_vars

\* ================================================================ claims
HasRow(resume_id, session_id) ==
    \E ra \in resume_analyses : ra.resume_id = resume_id /\ ra.analysis_session_id = session_id

CompletedAnalysisIn(R, C) ==
    \E s \in DOMAIN analysis_sessions :
        /\ analysis_sessions[s].status = "completed"
        /\ analysis_sessions[s].job_posting_id = C
        /\ HasRow(R, s)

\* C1: for every resume R and context C (general included), is_available(R, C)
\* is false exactly when a result row of R belongs to a completed session of
\* context C; rows of pending, processing or failed sessions never count.
C1_AvailabilityInvariant ==
    \A R \in Resumes, C \in Contexts :
        is_resume_available_for_analysis(R, C) = ~CompletedAnalysisIn(R, C)

C1_Witness ==
    \E R \in Resumes, s1, s2 \in DOMAIN analysis_sessions :
        /\ HasRow(R, s1) /\ HasRow(R, s2)
        /\ analysis_sessions[s1].status = "completed"
        /\ analysis_sessions[s2].status \in {"pending", "processing", "failed"}
        /\ analysis_sessions[s1].job_posting_id # analysis_sessions[s2].job_posting_id
        /\ ~is_resume_available_for_analysis(R, analysis_sessions[s1].job_posting_id)
        /\ is_resume_available_for_analysis(R, analysis_sessions[s2].job_posting_id)

\* A step touches session s when it creates, deletes or updates the session
\* row or changes the result rows of s.
Touched(s) ==
    \/ (s \in DOMAIN analysis_sessions) # (s \in DOMAIN analysis_sessions')
    \/ /\ s \in DOMAIN analysis_sessions
       /\ s \in DOMAIN analysis_sessions'
       /\ analysis_sessions[s] # analysis_sessions'[s]
    \/ RowsOf(resume_analyses, s) # RowsOf(resume_analyses', s)

ContextOf(s) ==
    IF s \in DOMAIN analysis_sessions
    THEN analysis_sessions[s].job_posting_id
    ELSE analysis_sessions'[s].job_posting_id

\* C2: contexts are isolated: a step that only touches sessions of contexts
\* other than C2 (general being a context of its own) leaves
\* is_available(R, C2) as it was, for every resume R.
C2_ContextIsolation ==
    [][\A R \in Resumes, C2 \in Contexts :
          (\A s \in SessionIds : Touched(s) => ContextOf(s) # C2)
          => (is_resume_available_for_analysis(R, C2)'
                = is_resume_available_for_analysis(R, C2))]_vars

C2_Witness ==
    \E R \in Resumes, s1, s2 \in DOMAIN analysis_sessions, B \in Jobs :
        /\ analysis_sessions[s1].status = "completed"
        /\ analysis_sessions[s1].job_posting_id \in Jobs \ {B}
        /\ HasRow(R, s1)
        /\ analysis_sessions[s2].status = "processing"
        /\ analysis_sessions[s2].job_posting_id = NULL
        /\ HasRow(R, s2)
        /\ ~is_resume_available_for_analysis(R, analysis_sessions[s1].job_posting_id)
        /\ is_resume_available_for_analysis(R, NULL)
        /\ is_resume_available_for_analysis(R, B)

\* C3: list_available(user, C) is exactly the set of resumes of that user for
\* which is_available(resume, C) holds; the storage key decides nothing.
C3_ListIsAvailabilityFilter ==
    \A u \in Users, C \in Contexts :
        get_available_resumes(u, C)
            = {r \in Resumes : resumes[r].user_id = u
                                /\ is_resume_available_for_analysis(r, C)}

C3_Witness ==
    \E u \in Users, C \in Contexts, r1, r2 \in Resumes :
        /\ resumes[r1].user_id = u /\ resumes[r2].user_id = u
        /\ resumes[r1].s3_resume_key # resumes[r2].s3_resume_key
        /\ get_available_resumes(u, C) = {r1}
        /\ \E D \in Contexts : get_available_resumes(u, D) = {r1, r2}

PairUnique ==
    \A x, y \in resume_analyses :
        (x.resume_id = y.resume_id /\ x.analysis_session_id = y.analysis_session_id) => x = y

RecordContract ==
    \A r \in Resumes, s \in DOMAIN analysis_sessions, res \in StoreResults :
        LET out == record(resume_analyses, analysis_sessions, r, s, res) IN
        IF HasRow(r, s)
        THEN out.error = "DuplicateAnalysis" /\ out.rows = resume_analyses
        ELSE /\ out.error = "none"
             /\ out.rows = resume_analyses \cup {AnalysisRow(r, s, res)}

\* C4: record for a pair that already has a row raises DuplicateAnalysis and
\* leaves the rows as they were; for a pair without a row it adds the row,
\* whatever rows the resume has in other sessions; so no pair ever has two rows.
C4_RecordUniqueness ==
    /\ [](PairUnique /\ RecordContract)
    /\ [][(lastError' # lastError /\ lastError' = "DuplicateAnalysis")
            => resume_analyses' = resume_analyses]_vars

C4_Witness ==
    /\ lastError = "DuplicateAnalysis"
    /\ \E R \in Resumes, s1, s2 \in DOMAIN analysis_sessions :
          s1 # s2 /\ HasRow(R, s1) /\ HasRow(R, s2)

\* ------------------------------------------------ session state machine
LegalEdges ==
    {<<"pending", "processing">>, <<"processing", "completed">>, <<"processing", "failed">>}

IsResetOf(s) ==
    /\ analysis_sessions'[s].status = "pending"
    /\ analysis_sessions'[s].processed_resumes = 0
    /\ RowsOf(resume_analyses', s) = {}

\* C5: a session is created pending with processed_count 0 and total_count
\* the size of its resume set; afterwards its status moves only pending ->
\* processing, processing -> completed, processing -> failed, or back to
\* pending by a reset, and total_count stays the size of the resume set.
C5_SessionTransitions ==
    [][\A s \in SessionIds :
          /\ (s \notin DOMAIN analysis_sessions /\ s \in DOMAIN analysis_sessions')
                => /\ analysis_sessions'[s].status = "pending"
                   /\ analysis_sessions'[s].processed_resumes = 0
                   /\ analysis_sessions'[s].total_resumes
                        = Cardinality(analysis_sessions'[s].resume_ids)
          /\ (s \in DOMAIN analysis_sessions /\ s \in DOMAIN analysis_sessions')
                => /\ \/ analysis_sessions'[s].status = analysis_sessions[s].status
                      \/ <<analysis_sessions[s].status, analysis_sessions'[s].status>> \in LegalEdges
                      \/ IsResetOf(s)
                   /\ analysis_sessions'[s].total_resumes = analysis_sessions[s].total_resumes
                   /\ analysis_sessions'[s].resume_ids = analysis_sessions[s].resume_ids]_vars

C5_Witness ==
    \E s1, s2 \in DOMAIN analysis_sessions :
        /\ analysis_sessions[s1].status = "completed"
        /\ analysis_sessions[s1].total_resumes = MaxResume
        /\ analysis_sessions[s2].status = "failed"
        /\ \E t \in tasks : t.session = s2 /\ t.cancelled

\* Every task of the current run has made its scoring call and has its answer.
AllScored(s) ==
    /\ Dispatched(s)
    /\ \A t \in LiveTasks(s) : t.pc # "running" /\ t.llm \in {"ok", "fail"}

C7_RowsWithinCounter ==
    \A s \in DOMAIN analysis_sessions :
        Cardinality(RowsOf(resume_analyses, s)) <= analysis_sessions[s].processed_resumes

C7_Witness ==
    \E s \in DOMAIN analysis_sessions :
        /\ analysis_sessions[s].status = "processing"
        /\ Cardinality(RowsOf(resume_analyses, s)) = 1
        /\ analysis_sessions[s].total_resumes = MaxResume
        /\ \E t \in LiveTasks(s) : t.pc = "running"

\* C8: a completed session has processed_count = total_count and exactly
\* one result row for each resume of its resume set, fallback rows included.
C8_CompletedIsFull ==
    \A s \in DOMAIN analysis_sessions :
        analysis_sessions[s].status = "completed" =>
            /\ analysis_sessions[s].processed_resumes = analysis_sessions[s].total_resumes
            /\ \A r \in analysis_sessions[s].resume_ids :
                  Cardinality({ra \in RowsOf(resume_analyses, s) : ra.resume_id = r}) = 1
            /\ \A ra \in RowsOf(resume_analyses, s) : ra.resume_id \in analysis_sessions[s].resume_ids

C8_Witness ==
    \E s \in DOMAIN analysis_sessions :
        /\ analysis_sessions[s].status = "completed"
        /\ analysis_sessions[s].total_resumes = MaxResume
        /\ \E ra \in RowsOf(resume_analyses, s) : ra.summary = FallbackSummary
        /\ \E ra \in RowsOf(resume_analyses, s) : ra.summary # FallbackSummary

Terminal(s) == analysis_sessions[s].status \in {"completed", "failed"}

\* C9: while a session is completed or failed, no pipeline step (a late
\* per-resume completion included) changes its processed_count, total_count
\* or result rows; they change only by a reset or a delete of the session.
C9_TerminalFrozen ==
    [][\A s \in DOMAIN analysis_sessions :
          (Terminal(s) /\ s \in DOMAIN analysis_sessions' /\ ~IsResetOf(s))
            => /\ analysis_sessions'[s].processed_resumes = analysis_sessions[s].processed_resumes
               /\ analysis_sessions'[s].total_resumes = analysis_sessions[s].total_resumes
               /\ RowsOf(resume_analyses', s) = RowsOf(resume_analyses, s)]_vars

\* A late completion is still to come for a session that is already terminal.
C9_Witness ==
    \E s \in DOMAIN analysis_sessions :
        /\ analysis_sessions[s].status = "completed"
        /\ \E t \in tasks : t.session = s /\ t.cancelled /\ t.pc = "running"

IsFallbackRow(ra) ==
    /\ ra.summary = FallbackSummary
    /\ ra.overall_fit_score = DefaultScore
    /\ ra.skill_match_score = DefaultScore
    /\ ra.project_relevance_score = DefaultScore
    /\ ra.problem_solving_score = DefaultScore
    /\ ra.tools_score = DefaultScore

\* C10: a failed scoring call leaves the session out of failed, gives the
\* resume a fallback row and counts it; a failed session was failed before
\* dispatch, so it has processed_count 0, no result rows and no tasks.
C10_ScoringFailureFallsBack ==
    /\ \A t \in tasks :
          (~t.cancelled /\ t.llm = "fail") =>
              /\ t.session \in DOMAIN analysis_sessions
              /\ analysis_sessions[t.session].status \in {"processing", "completed"}
              /\ analysis_sessions[t.session].processed_resumes >= 1
              /\ \E ra \in RowsOf(resume_analyses, t.session) :
                    ra.resume_id = t.resume /\ IsFallbackRow(ra)
    /\ \A s \in DOMAIN analysis_sessions :
          analysis_sessions[s].status = "failed" =>
              /\ analysis_sessions[s].processed_resumes = 0
              /\ RowsOf(resume_analyses, s) = {}
              /\ ~Dispatched(s)

C10_Witness ==
    \E s1, s2 \in DOMAIN analysis_sessions :
        /\ analysis_sessions[s1].status = "completed"
        /\ \A t \in LiveTasks(s1) : t.llm = "fail"
        /\ analysis_sessions[s1].total_resumes = MaxResume
        /\ analysis_sessions[s2].status = "failed"

\* ------------------------------------------------------- reset and delete
OtherSessionsUnchanged(s) ==
    \A s2 \in DOMAIN analysis_sessions \ {s} :
        /\ s2 \in DOMAIN analysis_sessions'
        /\ analysis_sessions'[s2] = analysis_sessions[s2]
        /\ RowsOf(resume_analyses', s2) = RowsOf(resume_analyses, s2)

\* C11: a reset leaves the session pending with processed_count 0 and no
\* result rows, and leaves status, counters and rows of every other session
\* as they were; a resume whose only completed analysis in the context of
\* the reset session belonged to that session is available there afterwards.
C11_ResetFrame ==
    [][\A s \in SessionIds :
          ResetSession(s) =>
            /\ DOMAIN analysis_sessions' = DOMAIN analysis_sessions
            /\ analysis_sessions'[s].status = "pending"
            /\ analysis_sessions'[s].processed_resumes = 0
            /\ RowsOf(resume_analyses', s) = {}
            /\ OtherSessionsUnchanged(s)
            /\ \A R \in Resumes, C \in Contexts :
                  ( /\ C = analysis_sessions[s].job_posting_id
                    /\ analysis_sessions[s].status = "completed"
                    /\ HasRow(R, s)
                    /\ \A s2 \in DOMAIN analysis_sessions \ {s} :
                          ~ ( /\ analysis_sessions[s2].status = "completed"
                              /\ analysis_sessions[s2].job_posting_id = C
                              /\ HasRow(R, s2) ) )
                  => /\ ~is_resume_available_for_analysis(R, C)
                     /\ is_resume_available_for_analysis(R, C)']_vars

\* A session reset in mid-run beside a completed session that kept its rows.
C11_Witness ==
    \E s, s2 \in DOMAIN analysis_sessions, R \in Resumes :
        /\ s # s2
        /\ analysis_sessions[s].status = "pending"
        /\ analysis_sessions[s].processed_resumes = 0
        /\ RowsOf(resume_analyses, s) = {}
        /\ \E t \in tasks : t.session = s /\ t.cancelled
        /\ R \in analysis_sessions[s].resume_ids
        /\ analysis_sessions[s2].status = "completed"
        /\ analysis_sessions[s2].processed_resumes = MaxResume
        /\ HasRow(R, s2)
        /\ is_resume_available_for_analysis(R, analysis_sessions[s].job_posting_id)
        /\ ~is_resume_available_for_analysis(R, analysis_sessions[s2].job_posting_id)

\* C12: deleting a session removes every result row of that session and no
\* row of any other session, and leaves the other sessions as they were;
\* from then on no result row references the deleted session.
C12_DeleteCascades ==
    /\ [](\A ra \in resume_analyses : ra.analysis_session_id \notin deleted)
    /\ [][\A s \in SessionIds :
            DeleteSession(s) =>
              /\ s \notin DOMAIN analysis_sessions'
              /\ RowsOf(resume_analyses', s) = {}
              /\ resume_analyses' = resume_analyses \ RowsOf(resume_analyses, s)
              /\ OtherSessionsUnchanged(s)]_vars

\* A session is gone, an insert for a missing session was refused, and the
\* session that remains holds rows of every resume.
C12_Witness ==
    /\ deleted # {}
    /\ lastError = "ForeignKeyViolation"
    /\ \E s2 \in DOMAIN analysis_sessions :
          \A R \in Resumes : HasRow(R, s2)

Orphans(rows, sessions) == {ra \in rows : ra.analysis_session_id \notin DOMAIN sessions}

\* C13: the sweep deletes every result row whose session does not exist and
\* no row whose session exists, and returns how many it deleted; after it
\* every remaining row references an existing session, and a second sweep
\* deletes nothing.
C13_CleanupSweep ==
    /\ [](LET out == cleanup_orphaned_analyses(resume_analyses, analysis_sessions)
               again == cleanup_orphaned_analyses(out.rows, analysis_sessions)
           IN /\ out.rows = resume_analyses \ Orphans(resume_analyses, analysis_sessions)
              /\ out.deleted_count = Cardinality(Orphans(resume_analyses, analysis_sessions))
              /\ again.deleted_count = 0
              /\ again.rows = out.rows)
    /\ [][Cleanup =>
            /\ Orphans(resume_analyses', analysis_sessions') = {}
            /\ \A s \in DOMAIN analysis_sessions :
                  RowsOf(resume_analyses', s) = RowsOf(resume_analyses, s)
            /\ ret' = Cardinality(resume_analyses) - Cardinality(resume_analyses')]_vars

\* The sweep has deleted two rows and kept the rows of the existing session.
C13_Witness ==
    /\ ret = 2
    /\ resume_analyses # {}
    /\ Orphans(resume_analyses, analysis_sessions) = {}
    /\ deleted # {}

\* Running work appears only for a processing session whose earlier tasks,
\* if any, belong to an abandoned run.
NewWorkOnlyForFreshRun ==
    \A t \in tasks' \ tasks :
        (t.pc = "running" /\ ~t.cancelled) =>
            /\ t.session \in DOMAIN analysis_sessions
            /\ analysis_sessions[t.session].status = "processing"
            /\ \A x \in tasks : x.session = t.session => x.cancelled

LateSettleChangesNothing ==
    \A t \in tasks, o \in TaskOutcomes :
        (t.cancelled /\ process_single_resume(t, o)) =>
            /\ analysis_sessions' = analysis_sessions
            /\ resume_analyses' = resume_analyses

\* C14: after a delete or reset of a processing session no per-resume work
\* is dispatched for it (work starts only for a session that is processing
\* and has none), a task of the abandoned run that settles afterwards leaves
\* the session rows and the result rows as they were, so a reset session
\* stays pending with processed_count 0 and no rows, and the cleanup sweep
\* leaves no row of a deleted session behind.
C14_LateResultsIgnored ==
    /\ [](\A s \in DOMAIN analysis_sessions :
            analysis_sessions[s].status = "pending" =>
                /\ analysis_sessions[s].processed_resumes = 0
                /\ RowsOf(resume_analyses, s) = {}
                /\ ~Dispatched(s))
    /\ [](\A ra \in cleanup_orphaned_analyses(resume_analyses, analysis_sessions).rows :
            ra.analysis_session_id \notin deleted)
    /\ [][NewWorkOnlyForFreshRun /\ LateSettleChangesNothing]_vars

\* One task of a reset run has settled late and the other is still to come,
\* beside a deleted session whose task is still in flight.
C14_Witness ==
    \E s \in DOMAIN analysis_sessions, d \in deleted :
        /\ analysis_sessions[s].status = "pending"
        /\ analysis_sessions[s].total_resumes = MaxResume
        /\ Cardinality({t \in tasks : t.session = s /\ t.cancelled /\ t.pc = "running"}) = 1
        /\ \E t \in tasks : t.session = d /\ t.cancelled /\ t.pc = "running"

\* C15: with every dispatched task run to its end and no delete, reset or
\* orchestration error, every session that enters processing eventually
\* reaches completed.
C15_ProcessingCompletes ==
    \A s \in SessionIds :
        (s \in DOMAIN analysis_sessions /\ analysis_sessions[s].status = "processing")
            ~> (s \in DOMAIN analysis_sessions /\ analysis_sessions[s].status = "completed")

\* ---------------------------------------------------------------- scoring
Scored == ret.fn = "analyze_resume_with_ai"

\* C16: when the scoring call raises, whatever the failure, score returns
\* without raising the fixed fallback result: the five numeric fields are
\* 70 and the summary reads "<reason>: analysis unavailable, default scores
\* applied".
C16_FallbackResult ==
    (Scored /\ ret.response.kind = "raise") =>
        /\ ~ret.raised
        /\ \A f \in ScoreFields : ret.result[f] = 70
        /\ \E reason \in FailureKinds :
              ret.result["Summary"] = reason \o ": analysis unavailable, default scores applied"

Clamp(x) == IF x > 100 THEN 100 ELSE IF x < 0 THEN 0 ELSE x

\* C17: every numeric score that score returns lies in [0, 100]: a field the
\* model gave above 100 comes back as 100 and one below 0 as 0, each of the
\* five fields on its own.
C17_ScoresClamped ==
    Scored =>
        \A f \in ScoreFields :
            /\ ret.result[f] \in 0..100
            /\ (ret.response.kind = "json" /\ f \in DOMAIN ret.response.obj)
                  => ret.result[f] = Clamp(ret.response.obj[f])

\* C18: when the reply parses as JSON but lacks some of the five numeric
\* fields, each missing one is set to 70 on its own, each one present keeps
\* the value the model gave, and the result is not the fallback result.
C18_MissingFieldsDefaulted ==
    (Scored /\ ret.response.kind = "json") =>
        /\ ~ret.raised
        /\ \A f \in ScoreFields :
              ret.result[f] = IF f \in DOMAIN ret.response.obj
                              THEN ret.response.obj[f]
                              ELSE 70
        /\ ret.result # _get_fallback_analysis

C18_Witness ==
    /\ Scored
    /\ ret.response.kind = "json"
    /\ "Summary" \in DOMAIN ret.response.obj
    /\ "Overall Fit" \in DOMAIN ret.response.obj
    /\ "Skill Match" \in DOMAIN ret.response.obj
    /\ "Tools" \notin DOMAIN ret.response.obj
    /\ "Problem Solving" \notin DOMAIN ret.response.obj
    /\ ret.result["Overall Fit"] = 50
    /\ ret.result["Skill Match"] = 150
    /\ ret.result["Tools"] = 70
    /\ ret.result["Problem Solving"] = 70

\* Every task of the current run of s has come to its end.
RunOver(s) == Dispatched(s) /\ \A t \in LiveTasks(s) : t.pc # "running"

\* The task ended before its scoring call: download or extraction failed.
ExtractionFailed(t) == t.pc # "running" /\ t.llm = "none"

\* C19: a resume whose text extraction failed is counted and has a result
\* row with the fallback scores, and its siblings are scored all the same:
\* when the tasks of a session are over, processed_count equals total_count.
C19_ExtractionFailureCounted ==
    \A s \in DOMAIN analysis_sessions :
        /\ \A t \in LiveTasks(s) :
              ExtractionFailed(t) =>
                  \E ra \in RowsOf(resume_analyses, s) :
                      /\ ra.resume_id = t.resume
                      /\ ra.overall_fit_score = DefaultScore
                      /\ ra.skill_match_score = DefaultScore
                      /\ ra.project_relevance_score = DefaultScore
                      /\ ra.problem_solving_score = DefaultScore
                      /\ ra.tools_score = DefaultScore
        /\ RunOver(s) =>
              analysis_sessions[s].processed_resumes = analysis_sessions[s].total_resumes

\* -------------------------------------------------------------- retrieval
Range(seq) == {seq[i] : i \in 1..Len(seq)}

\* x comes before y: nearer, or as near and earlier in the chunk list.
Before(x, y) ==
    x.distance < y.distance \/ (x.distance = y.distance /\ x.doc < y.doc)

\* C20: the query returns min(k, number of chunks) pairs in ascending order
\* of distance, chunks of equal distance in their original order, and they
\* are the k nearest chunks; the result is therefore fixed by text and k.
C20_TopKStable ==
    ret.fn = "top_chunks" =>
        LET out == ret.top_chunks
            n == Len(ret.chunks)
        IN /\ Len(out) = IF n < TopK THEN n ELSE TopK
           /\ Range(out) \subseteq Range(ret.chunks)
           /\ \A i, j \in 1..Len(out) : i < j => Before(out[i], out[j])
           /\ \A x \in Range(ret.chunks) \ Range(out) :
                 \A y \in Range(out) : Before(y, x)

\* More chunks than k, a tie inside the result and a tie across the cut.
C20_Witness ==
    /\ ret.fn = "top_chunks"
    /\ Len(ret.chunks) > TopK
    /\ Len(ret.top_chunks) = TopK
    /\ ret.top_chunks # SubSeq(ret.chunks, 1, TopK)
    /\ ret.top_chunks[1].distance = ret.top_chunks[2].distance
    /\ ret.top_chunks[1].doc > 1
    /\ \E x \in Range(ret.chunks) \ Range(ret.top_chunks) :
          x.distance = ret.top_chunks[TopK].distance

\* C21: the digest of a resume holds only chunks of that resume, so no chunk
\* of one resume is in the evidence of another, and building or searching
\* the index of one resume leaves index and evidence of every other resume
\* as they were.
C21_NoCrossResumeLeak ==
    /\ [](\A r \in Resumes :
            /\ \A c \in Range(ret.evidence[r]) : c.resume = r
            /\ \A c \in Range(ret.index[r]) : c.resume = r
            /\ \A r2 \in Resumes \ {r} :
                  Range(ret.evidence[r]) \cap Range(ret.evidence[r2]) = {})
    /\ [][\A r \in Resumes :
            (ret'.index[r] # ret.index[r] \/ ret'.evidence[r] # ret.evidence[r]
                \/ (r \in ret'.searched /\ r \notin ret.searched))
            => \A r2 \in Resumes \ {r} :
                  /\ ret'.index[r2] = ret.index[r2]
                  /\ ret'.top_resumes[r2] = ret.top_resumes[r2]
                  /\ ret'.evidence[r2] = ret.evidence[r2]]_vars

\* Two resumes with chunks of their own, both searched, the second digest
\* in an order the search made.
C21_Witness ==
    /\ ret.searched = Resumes
    /\ \A r \in Resumes : Len(ret.evidence[r]) = MaxOwnChunks
    /\ \E r \in Resumes : ret.evidence[r] # ret.index[r]

\* ---------------------------------------------------------- analysis page
\* The fetch has come back with the session and its results.
Fetched == ui.pc = "done" /\ ~ui.error

\* C22: whatever order the rows were written in, the cards on the page are
\* in descending order of overall fit and the rank on a card is its place
\* in that order.
C22_RankFollowsOverallFit ==
    Fetched =>
        LET cards == ResultsDisplay.cards IN
        /\ \A i \in 1..Len(cards) : cards[i].rank = i
        /\ \A i, j \in 1..Len(cards) :
              cards[i].rank < cards[j].rank
                => cards[i].candidate.overall_fit >= cards[j].candidate.overall_fit

\* Rows written worst first, shown best first.
C22_Witness ==
    /\ Fetched
    /\ Len(ResultsDisplay.cards) = MaxResume
    /\ ui.reply.written[1].overall_fit < ui.reply.written[MaxResume].overall_fit
    /\ ResultsDisplay.cards[1].candidate.overall_fit
          > ResultsDisplay.cards[MaxResume].candidate.overall_fit

\* C23: after a successful fetch the page shows progress exactly when the
\* fetched session is processing, and shows the results otherwise.
C23_ProgressWhileProcessing ==
    Fetched =>
        /\ ui.isAnalyzing = (ui.session.status = "processing")
        /\ (ResultsDisplay.view = "progress") = (ui.session.status = "processing")

\* C27: every resume with a result row in the fetched session has a card:
\* rows of distinct resumes are never merged, so a completed session shows
\* as many candidates as it has rows.
C27_NoRowCollapsed ==
    Fetched =>
        /\ \A i \in 1..Len(ui.reply.results) :
              \E k \in 1..Len(ui.analysisResults) :
                  ui.analysisResults[k].resume_id = ui.reply.results[i].resume_id
        /\ ui.session.status = "completed"
              => Len(ResultsDisplay.cards) = Len(ui.reply.results)

OnScreen(n) == ui.notification.isOpen /\ ui.notification.n = n

\* A notification with a duration is gone at the latest one animation delay
\* after its duration.
ClosedInTime ==
    (ui.notification.isOpen /\ ui.notification.duration > 0)
        => ui.openFor <= ui.notification.duration + AnimationDelay

EventuallyClosed ==
    \A n \in 1..MaxShow :
        (OnScreen(n) /\ ui.notification.duration > 0) ~> ~OnScreen(n)

\* The delayed onClose that takes a notification without duration off the
\* screen was set off by the user on that notification.
ClosedByUserOnly ==
    \A t \in ui.timers :
        (FireClose(t) /\ ui.notification.isOpen /\ ui.notification.duration = 0)
            => (t.by = "user" /\ t.for = ui.notification.n)

\* C24: a notification opened with duration d > 0 is closed automatically,
\* onClose being called at the latest d ms plus the 200 ms animation delay
\* after it opened; a notification opened with duration 0 is closed only by
\* a user action.
C24_AutoCloseByDuration ==
    /\ []ClosedInTime
    /\ EventuallyClosed
    /\ [][ClosedByUserOnly]_vars

\* A timer acts on the notification it was set for.
OwnTimerOnly ==
    \A t \in ui.timers :
        ((FireClose(t) \/ FireAuto(t)) /\ ui.notification.isOpen)
            => t.for = ui.notification.n

\* An automatic close comes when the duration of the notification on
\* screen has elapsed, not before.
NotBeforeDuration ==
    \A t \in ui.timers :
        (FireClose(t) /\ ui.notification.isOpen /\ t.by = "timer")
            => ui.openFor >= ui.notification.duration + AnimationDelay

\* C28: a close scheduled for one notification never closes a later one: a
\* notification shown while the delayed onClose or the auto-close timer of
\* the previous one is pending stays open until its own duration elapses or
\* the user closes it.
C28_NoStaleClose ==
    [][OwnTimerOnly /\ NotBeforeDuration]_vars

\* -------------------------------------------------------- resume selection
\* C26: no resume is submitted to /resumes/select for a job context for
\* which it is already analyzed: handleSelectResume and handleSelectAll go
\* by the is_analyzed flags of the selected job context, also when the
\* context is switched while a list fetch is in flight.
C26_NoAnalyzedSubmitted ==
    \A p \in ui.posts : is_resume_available_for_analysis(p.s3_key, p.job_posting_id)

\* ----------------------------------------------------------- feedback modal
\* C29: whenever Send Email is enabled, the preview, the subject and the
\* feedback text held by the modal were generated for the candidate on
\* display, so no mail carries texts written for another candidate or left
\* over from an earlier opening.
C29_PreviewOfCurrentCandidate ==
    /\ SendEnabled =>
          /\ ui.feedbackPreview = FeedbackPreview(ui.candidate)
          /\ ui.customSubject = FeedbackPreview(ui.candidate).subject_suggestion
          /\ ui.customFeedback = FeedbackPreview(ui.candidate).feedback_content
    /\ \A m \in ui.mails :
          /\ m.custom_subject = FeedbackPreview(m.resume_id).subject_suggestion
          /\ m.custom_feedback = FeedbackPreview(m.resume_id).feedback_content

\* ------------------------------------------------------ bulk feedback modal
\* The step changes only along confirm -> sending, sending -> results with
\* the results of the answer, sending -> confirm with the error set, or
\* back to confirm by handleClose.
BulkStepMoves ==
    ui'.step # ui.step =>
        \/ ui.step = "confirm" /\ ui'.step = "sending"
        \/ ui.step = "sending" /\ ui'.step = "results" /\ ui'.results # << >>
        \/ ui.step = "sending" /\ ui'.step = "confirm" /\ ui'.error
        \/ BulkClose

BulkCloseResets ==
    BulkClose =>
        /\ ui'.step = "confirm"
        /\ ui'.results = << >>
        /\ ~ui'.error
        /\ ui'.customSubject = ""

\* Step 'results' shows the answer to the request of this opening.
ResultsOfThisOpening ==
    ui.step = "results" =>
        /\ ui.results # << >>
        /\ \A i \in DOMAIN ui.results : ui.results[i].request = ui.opening

\* C30: the bulk modal moves only confirm -> sending -> results (successful
\* response) or confirm -> sending -> confirm with an error (failure);
\* handleClose returns it to confirm with results, error and subject
\* cleared; it is never in step 'results' without the results of a
\* successful response of the current opening, also when it is closed while
\* the request is in flight.
C30_BulkSteps ==
    /\ []ResultsOfThisOpening
    /\ [][BulkStepMoves /\ BulkCloseResets]_vars

====
